---- MODULE Spec2Model ----
(***************************************************************************)
(* git-timesheet (src/index.mjs): one run of generateTimesheet.            *)
(*                                                                         *)
(* Strings are sequences of one-character strings, so that split, join,    *)
(* trim and padStart are computed character by character.  A Date is its   *)
(* time value, counted in hours of UTC since 0001-01-01T00:00Z; the local  *)
(* time zone is tz hours ahead of UTC (tz < 0: behind).                    *)
(***************************************************************************)
EXTENDS Integers, Sequences, FiniteSets, TLC

VARIABLES
    pc,              \* position of the run in generateTimesheet
    apiKey,          \* --apikey value ("" when empty)
    sheetId,         \* --sheetid value ("" when empty)
    credentialsExist,\* fs.existsSync(CREDENTIALS_PATH)
    currentYear,     \* new Date().getFullYear()
    currentMonth,    \* new Date().getMonth() + 1
    tz,              \* local offset from UTC of the process, in hours
    logs,            \* const logs (line 103)
    logIdx,          \* next element logs.forEach visits (1-based)
    dailyLog,        \* const dailyLog (line 110): date string -> messages
    i,               \* loop variable of the day loop (line 123)
    dateStr,         \* dateStr of the iteration awaiting the formatter
    isHoliday,       \* isHoliday of the iteration awaiting the formatter
    rawMessages,     \* rawMessages of the iteration awaiting the formatter
    timesheetData,   \* const timesheetData (line 120)
    totalHours,      \* let totalHours (line 121)
    origin,          \* history: per pushed record, its rawMessages and branch
    sheetValues,     \* const values (line 49) handed to the spreadsheet writer
    trace,           \* history: collaborator calls and returns, in order
    exitCode         \* process exit code, NoExit while running

vars == << pc, apiKey, sheetId, credentialsExist, currentYear, currentMonth, tz,
           logs, logIdx, dailyLog, i, dateStr, isHoliday, rawMessages,
           timesheetData, totalHours, origin, sheetValues, trace, exitCode >>

(***************************************************************************)
(* Bounds of the model.                                                    *)
(***************************************************************************)
MaxLines == 2        \* commits `git log` prints in a run of the whole program
MaxGroupLines == 4   \* log lines handed to the log extractor alone
MaxSubjLen == 5      \* characters of a commit subject

NoExit == -1

(***************************************************************************)
(* Strings.                                                                *)
(***************************************************************************)
SEP == << " ", "-", " " >>
NL == << "\n" >>
NoLogs == << "N", "o", " ", "l", "o", "g", "s" >>
WhiteSpace == { " ", "\n", "\t", "\r" }

Digits == << "0", "1", "2", "3", "4", "5", "6", "7", "8", "9" >>

\* String(n) for a non-negative integer n
RECURSIVE NumToStr(_)
NumToStr(n) ==
    IF n < 10 THEN << Digits[n + 1] >>
    ELSE NumToStr(n \div 10) \o << Digits[(n % 10) + 1] >>

\* s.padStart(width, "0")
RECURSIVE PadStart(_, _)
PadStart(s, width) ==
    IF Len(s) >= width THEN s ELSE PadStart(<< "0" >> \o s, width)

\* s.startsWith(p) at position k (1-based)
MatchAt(s, p, k) ==
    /\ k + Len(p) - 1 <= Len(s)
    /\ \A j \in 1..Len(p) : s[k + j - 1] = p[j]

\* s.split(sep) for a non-empty separator: every non-overlapping occurrence,
\* scanned from the left, cuts the string
RECURSIVE SplitFrom(_, _, _, _)
SplitFrom(s, sep, start, k) ==
    IF k + Len(sep) - 1 > Len(s)
    THEN << SubSeq(s, start, Len(s)) >>
    ELSE IF MatchAt(s, sep, k)
         THEN << SubSeq(s, start, k - 1) >>
              \o SplitFrom(s, sep, k + Len(sep), k + Len(sep))
         ELSE SplitFrom(s, sep, start, k + 1)

Split(s, sep) == SplitFrom(s, sep, 1, 1)

\* parts.join(sep)
RECURSIVE Join(_, _)
Join(parts, sep) ==
    IF Len(parts) = 0 THEN << >>
    ELSE IF Len(parts) = 1 THEN parts[1]
    ELSE parts[1] \o sep \o Join(Tail(parts), sep)

\* s.trim()
RECURSIVE TrimStart(_)
TrimStart(s) ==
    IF Len(s) > 0 /\ s[1] \in WhiteSpace THEN TrimStart(Tail(s)) ELSE s

RECURSIVE TrimEnd(_)
TrimEnd(s) ==
    IF Len(s) > 0 /\ s[Len(s)] \in WhiteSpace
    THEN TrimEnd(SubSeq(s, 1, Len(s) - 1)) ELSE s

Trim(s) == TrimEnd(TrimStart(s))

(***************************************************************************)
(* Dates.                                                                  *)
(***************************************************************************)
IsLeap(y) == (y % 4 = 0 /\ y % 100 # 0) \/ y % 400 = 0

\* days of the months before month index m0 (0-based) in a common year
CumDays == << 0, 31, 59, 90, 120, 151, 181, 212, 243, 273, 304, 334 >>

\* days from 0001-01-01 to the first day of year y
DaysBeforeYear(y) ==
    365 * (y - 1) + ((y - 1) \div 4) - ((y - 1) \div 100) + ((y - 1) \div 400)

\* days from the first day of year y to the first day of month index m0
DaysBeforeMonth(y, m0) ==
    CumDays[m0 + 1] + (IF m0 >= 2 /\ IsLeap(y) THEN 1 ELSE 0)

\* the day number of (year, month index, day); a day past the end of the
\* month runs on into the following month, as Date's constructor does
DayNumber(y, m0, d) == DaysBeforeYear(y) + DaysBeforeMonth(y, m0) + d - 1

\* the civil date of a day number
YearOfDay(n) ==
    CHOOSE y \in ((n \div 366) + 1)..((n \div 365) + 1) :
        DaysBeforeYear(y) <= n /\ n < DaysBeforeYear(y + 1)

MonthIndexOfDay(n) ==
    LET y == YearOfDay(n)
        r == n - DaysBeforeYear(y)
    IN  CHOOSE m0 \in 0..11 :
            /\ DaysBeforeMonth(y, m0) <= r
            /\ (m0 = 11 \/ r < DaysBeforeMonth(y, m0 + 1))

DayOfMonthOfDay(n) ==
    LET y == YearOfDay(n)
    IN  n - DaysBeforeYear(y) - DaysBeforeMonth(y, MonthIndexOfDay(n)) + 1

\* new Date(year, monthIndex, day): local midnight, as a UTC time value
NewDate(year, monthIndex, day, zone) == 24 * DayNumber(year, monthIndex, day) - zone

\* the local day number of a time value
LocalDay(t, zone) == (t + zone) \div 24

\* the UTC day number of a time value
UTCDay(t) == t \div 24

\* date.getMonth()
GetMonth(t, zone) == MonthIndexOfDay(LocalDay(t, zone))

\* date.getDay(): Sunday = 0 ... Saturday = 6 (0001-01-01 is a Monday)
GetDay(t, zone) == (LocalDay(t, zone) + 1) % 7

\* date.toISOString().split("T")[0]
ISODate(t) ==
    LET n == UTCDay(t)
    IN  PadStart(NumToStr(YearOfDay(n)), 4) \o << "-" >>
        \o PadStart(NumToStr(MonthIndexOfDay(n) + 1), 2) \o << "-" >>
        \o PadStart(NumToStr(DayOfMonthOfDay(n)), 2)

\* isWeekend(date), lines 22-24
isWeekend(t, zone) == GetDay(t, zone) = 0 \/ GetDay(t, zone) = 6

(***************************************************************************)
(* Inputs.                                                                 *)
(***************************************************************************)
Years == { 2023, 2024 }
Months == 1..12
TimeZones == { -5, 0, 1 }

\* sequences over S of length 0..n
BoundedSeq(S, n) == UNION { [1..k -> S] : k \in 0..n }

\* %ad under --date=short
GitDate(y, m, d) ==
    PadStart(NumToStr(y), 4) \o << "-" >> \o PadStart(NumToStr(m), 2)
    \o << "-" >> \o PadStart(NumToStr(d), 2)

\* one line of --pretty=format:"%ad - %s"
GitLine(date, subject) == date \o SEP \o subject

\* commits of a run of the whole program: two on one day and one on the
\* next, days that every month has
RunCommits == { << 27, << "a" >> >>, << 27, << "b" >> >>, << 28, << "a" >> >> }

RunLines(y, m) == { GitLine(GitDate(y, m, c[1]), c[2]) : c \in RunCommits }

\* what `git log` prints: the commits' lines, separated by newlines
GitOutputs(y, m) == { Join(ls, NL) : ls \in BoundedSeq(RunLines(y, m), MaxLines) }

\* what the formatter collaborator answers when it answers
Replies == { << " ", "O", "k", "\n" >>, NoLogs }

FormatterOutcomes ==
    { [ok |-> FALSE, content |-> << >>] }
    \cup { [ok |-> TRUE, content |-> c] : c \in Replies }

(***************************************************************************)
(* The program.                                                            *)
(***************************************************************************)
DEFAULT_HOURS == 8
LastLoopDay == 31

Event(op, day, ok) == [op |-> op, day |-> day, ok |-> ok]

\* the checks without the one of the credentials file
UsageErrorNoCredentials(key, sheet, creds) == key = "" \/ sheet = ""

\* lines 72-85: a required input is missing
UsageError(key, sheet, creds) == key = "" \/ sheet = "" \/ ~creds

Init ==
    /\ pc = "start"
    /\ apiKey \in { "", "sk" }
    /\ sheetId \in { "", "sheet" }
    /\ credentialsExist \in BOOLEAN
    /\ currentYear \in Years
    /\ currentMonth \in Months
    /\ tz \in TimeZones
    /\ logs = << >>
    /\ logIdx = 1
    /\ dailyLog = << >>
    /\ i = 1
    /\ dateStr = << >>
    /\ isHoliday = FALSE
    /\ rawMessages = << >>
    /\ timesheetData = << >>
    /\ totalHours = 0
    /\ origin = << >>
    /\ sheetValues = << >>
    /\ trace = << >>
    /\ exitCode = NoExit

\* lines 72-97: the three checks, then the collaborators' clients are built
Validate ==
    /\ pc = "start"
    /\ IF UsageError(apiKey, sheetId, credentialsExist)
       THEN pc' = "done" /\ exitCode' = 1
       ELSE pc' = "fetch" /\ exitCode' = exitCode
    /\ UNCHANGED << apiKey, sheetId, credentialsExist, currentYear, currentMonth,
                    tz, logs, logIdx, dailyLog, i, dateStr, isHoliday,
                    rawMessages, timesheetData, totalHours, origin, sheetValues,
                    trace >>

\* lines 100-107: execSync returns the log text, or throws
FetchLogs ==
    /\ pc = "fetch"
    /\ \/ /\ \E out \in GitOutputs(currentYear, currentMonth) :
                logs' = Split(out, NL)
          /\ logIdx' = 1
          /\ trace' = Append(trace, Event("fetch", 0, TRUE))
          /\ pc' = "process"
          /\ exitCode' = exitCode
       \/ /\ trace' = Append(trace, Event("fetch", 0, FALSE))
          /\ pc' = "done"
          /\ exitCode' = 1
          /\ UNCHANGED << logs, logIdx >>
    /\ UNCHANGED << apiKey, sheetId, credentialsExist, currentYear, currentMonth,
                    tz, dailyLog, i, dateStr, isHoliday, rawMessages,
                    timesheetData, totalHours, origin, sheetValues >>

\* dailyLog[date] || []
Lookup(d, date) == IF date \in DOMAIN d THEN d[date] ELSE << >>

\* the list of the date replaced instead of extended
PushLogOverwrite(d, date, message) ==
    [ k \in (DOMAIN d) \cup { date } |->
        IF k = date THEN << message >> ELSE d[k] ]

\* lines 115-116: if (!dailyLog[date]) dailyLog[date] = []; push
PushLog(d, date, message) ==
    [ k \in (DOMAIN d) \cup { date } |->
        IF k = date THEN Append(Lookup(d, date), message) ELSE d[k] ]

\* const [date, message] = log.split(" - "): the parts after the second lost
MessagePartsFirst(log) == SubSeq(Split(log, SEP), 2, 2)

\* line 113: const [date, ...messageParts] = log.split(" - ")
LogDate(log) == Head(Split(log, SEP))
MessageParts(log) == Tail(Split(log, SEP))

\* line 114: messageParts.join(" - ").trim()
LogMessage(log) == Trim(Join(MessageParts(log), SEP))

\* lines 111-117: the callback of logs.forEach, on one line
ProcessLog ==
    /\ pc = "process"
    /\ logIdx <= Len(logs)
    /\ LET log == logs[logIdx]
       IN  dailyLog' = IF log = << >> THEN dailyLog
                       ELSE PushLog(dailyLog, LogDate(log), LogMessage(log))
    /\ logIdx' = logIdx + 1
    /\ pc' = IF logIdx = Len(logs) THEN "loop" ELSE "process"
    /\ UNCHANGED << apiKey, sheetId, credentialsExist, currentYear, currentMonth,
                    tz, logs, i, dateStr, isHoliday, rawMessages, timesheetData,
                    totalHours, origin, sheetValues, trace, exitCode >>

\* line 124
CurrentDate(day) == NewDate(currentYear, currentMonth - 1, day, tz)

\* the loop stopping one day early
LoopContinuesShort(day) == day < LastLoopDay

\* line 123: the loop condition
LoopContinues(day) == day <= LastLoopDay

\* line 125: the date has run into the next month
RolledOver(day) == GetMonth(CurrentDate(day), tz) + 1 # currentMonth

\* hours given whether or not the day has messages
HoursIgnoringLogs(raw, holiday) == IF ~holiday THEN DEFAULT_HOURS ELSE 0

\* line 135
Hours(raw, holiday) == IF Len(raw) > 0 /\ ~holiday THEN DEFAULT_HOURS ELSE 0

\* the formatter asked only for several messages
NeedsFormatSeveral(raw) == Len(raw) > 1

\* lines 131-133: the formatter is asked
NeedsFormat(raw) == Len(raw) # 0

\* the fallback joined by blanks
FallbackSpaces(messages) == Join(messages, << " " >>)

\* line 41: the summary when the formatter fails
Fallback(messages) == Join(messages, NL)

\* lines 138-143
DayRecord(date, hours, summary, holiday) ==
    [ Date |-> date, WorkedHours |-> hours, Logs |-> summary,
      Weekend |-> IF holiday THEN "Yes" ELSE "No" ]

\* lines 123, 125 and 147: the loop ends and updateGoogleSheet is called
LoopExit ==
    /\ pc = "loop"
    /\ ~LoopContinues(i) \/ RolledOver(i)
    /\ sheetValues' = << << "Date", "Worked Hours", "Logs", "Weekend" >> >>
                      \o [ k \in 1..Len(timesheetData) |->
                             << timesheetData[k].Date, timesheetData[k].WorkedHours,
                                timesheetData[k].Logs, timesheetData[k].Weekend >> ]
    /\ trace' = Append(trace, Event("write", 0, TRUE))
    /\ pc' = "write"
    /\ UNCHANGED << apiKey, sheetId, credentialsExist, currentYear, currentMonth,
                    tz, logs, logIdx, dailyLog, i, dateStr, isHoliday,
                    rawMessages, timesheetData, totalHours, origin, exitCode >>

\* lines 124-143 for a day without messages
DayWithoutLogs ==
    /\ pc = "loop"
    /\ LoopContinues(i) /\ ~RolledOver(i)
    /\ LET date == ISODate(CurrentDate(i))
           holiday == isWeekend(CurrentDate(i), tz)
           raw == Lookup(dailyLog, date)
       IN  /\ ~NeedsFormat(raw)
           /\ totalHours' = totalHours + Hours(raw, holiday)
           /\ timesheetData' = Append(timesheetData,
                                      DayRecord(date, Hours(raw, holiday), NoLogs, holiday))
           /\ origin' = Append(origin, [day |-> i, raw |-> raw, via |-> "empty"])
    /\ i' = i + 1
    /\ UNCHANGED << pc, apiKey, sheetId, credentialsExist, currentYear,
                    currentMonth, tz, logs, logIdx, dailyLog, dateStr, isHoliday,
                    rawMessages, sheetValues, trace, exitCode >>

\* lines 124-133 for a day with messages: formatCommitMessages is awaited
CallFormatter ==
    /\ pc = "loop"
    /\ LoopContinues(i) /\ ~RolledOver(i)
    /\ LET date == ISODate(CurrentDate(i))
           raw == Lookup(dailyLog, date)
       IN  /\ NeedsFormat(raw)
           /\ dateStr' = date
           /\ isHoliday' = isWeekend(CurrentDate(i), tz)
           /\ rawMessages' = raw
    /\ trace' = Append(trace, Event("format", i, TRUE))
    /\ pc' = "format"
    /\ UNCHANGED << apiKey, sheetId, credentialsExist, currentYear, currentMonth,
                    tz, logs, logIdx, dailyLog, i, timesheetData, totalHours,
                    origin, sheetValues, exitCode >>

\* lines 32-42 and 135-143: the formatter answers or fails, the record is pushed
FormatterReturn ==
    /\ pc = "format"
    /\ \E r \in FormatterOutcomes :
          /\ timesheetData' =
                Append(timesheetData,
                       DayRecord(dateStr, Hours(rawMessages, isHoliday),
                                 IF r.ok THEN Trim(r.content) ELSE Fallback(rawMessages),
                                 isHoliday))
          /\ origin' = Append(origin, [day |-> i, raw |-> rawMessages,
                                       via |-> IF r.ok THEN "formatter" ELSE "fallback"])
          /\ trace' = Append(trace, Event("formatted", i, r.ok))
    /\ totalHours' = totalHours + Hours(rawMessages, isHoliday)
    /\ i' = i + 1
    /\ pc' = "loop"
    /\ UNCHANGED << apiKey, sheetId, credentialsExist, currentYear, currentMonth,
                    tz, logs, logIdx, dailyLog, dateStr, isHoliday, rawMessages,
                    sheetValues, exitCode >>

\* a failed update ending the run with exit code 1
ExitAfterWriteFailing(ok) == IF ok THEN 0 ELSE 1

\* line 68 and the end of the script: the exit code after the writer's answer
ExitAfterWrite(ok) == 0

\* lines 54-67: the update resolves or rejects; either way the run ends
WriterReturn ==
    /\ pc = "write"
    /\ \E ok \in BOOLEAN :
          /\ trace' = Append(trace, Event("written", 0, ok))
          /\ exitCode' = ExitAfterWrite(ok)
    /\ pc' = "done"
    /\ UNCHANGED << apiKey, sheetId, credentialsExist, currentYear, currentMonth,
                    tz, logs, logIdx, dailyLog, i, dateStr, isHoliday,
                    rawMessages, timesheetData, totalHours, origin, sheetValues >>

Next ==
    \/ Validate
    \/ FetchLogs
    \/ ProcessLog
    \/ LoopExit
    \/ DayWithoutLogs
    \/ CallFormatter
    \/ FormatterReturn
    \/ WriterReturn

Spec == Init /\ [][Next]_vars

(***************************************************************************)
(* The log extractor alone (lines 110-117), on richer log text: any        *)
(* subject over a three-letter alphabet on a single line, and several      *)
(* lines, blank ones among them, over two dates.  `git log` strips the     *)
(* trailing white space of a subject, so no subject ends in a blank.       *)
(***************************************************************************)
Alphabet == { " ", "-", "a" }

Subjects ==
    { subj \in BoundedSeq(Alphabet, MaxSubjLen) :
        Len(subj) = 0 \/ subj[Len(subj)] \notin WhiteSpace }

ExtractorDates == { GitDate(2024, 6, 5), GitDate(2024, 6, 6) }

GroupLines ==
    { << >> } \cup { GitLine(d, subj) : d \in ExtractorDates,
                                        subj \in { << "a" >>, << "b" >> } }

ExtractorInputs ==
    { << GitLine(GitDate(2024, 6, 5), subj) >> : subj \in Subjects }
    \cup (BoundedSeq(GroupLines, MaxGroupLines) \ { << >> })

InitLog ==
    /\ pc = "process"
    /\ apiKey = "sk"
    /\ sheetId = "sheet"
    /\ credentialsExist = TRUE
    /\ currentYear = 2024
    /\ currentMonth = 6
    /\ tz = 0
    /\ logs \in ExtractorInputs
    /\ logIdx = 1
    /\ dailyLog = << >>
    /\ i = 1
    /\ dateStr = << >>
    /\ isHoliday = FALSE
    /\ rawMessages = << >>
    /\ timesheetData = << >>
    /\ totalHours = 0
    /\ origin = << >>
    /\ sheetValues = << >>
    /\ trace = << Event("fetch", 0, TRUE) >>
    /\ exitCode = NoExit

NextLog == ProcessLog

SpecLog == InitLog /\ [][NextLog]_vars

(***************************************************************************)
(* Vocabulary of the properties.                                           *)
(***************************************************************************)
\* the day loop has ended and the writer has been called
LoopEnded == pc = "write" \/ (pc = "done" /\ sheetValues # << >>)

\* the length of a month by the calendar's rule
CalendarDays(y, m) ==
    IF m \in { 4, 6, 9, 11 } THEN 30
    ELSE IF m # 2 THEN 31
    ELSE IF (y % 4 = 0 /\ y % 100 # 0) \/ y % 400 = 0 THEN 29 ELSE 28

DigitValue(c) == CHOOSE n \in 0..9 : Digits[n + 1] = c

RECURSIVE StrToNum(_)
StrToNum(s) ==
    IF Len(s) = 0 THEN 0
    ELSE 10 * StrToNum(SubSeq(s, 1, Len(s) - 1)) + DigitValue(s[Len(s)])

\* the ISO date string names a Saturday or a Sunday
DateIsWeekend(date) ==
    LET y == StrToNum(SubSeq(date, 1, 4))
        m == StrToNum(SubSeq(date, 6, 7))
        d == StrToNum(SubSeq(date, 9, 10))
    IN  (DayNumber(y, m - 1, d) + 1) % 7 \in { 0, 6 }

\* the messages the DailyLogGroup holds for a record's Date
RawOf(k) == Lookup(dailyLog, timesheetData[k].Date)

\* the events of the trace with one of the given names
EventsOf(ops) == SelectSeq(trace, LAMBDA e : e.op \in ops)

Records == 1..Len(timesheetData)

(***************************************************************************)
(* C1.  When the day loop has ended, the timesheet has exactly as many     *)
(* records as the target month has calendar days (28, 29, 30 or 31),       *)
(* whatever the logs and the formatter's answers; before that it never     *)
(* has more.                                                               *)
(***************************************************************************)
C1_LengthIsDaysInMonth ==
    /\ Len(timesheetData) <= CalendarDays(currentYear, currentMonth)
    /\ LoopEnded => Len(timesheetData) = CalendarDays(currentYear, currentMonth)

C1_Witness ==
    /\ LoopEnded
    /\ currentYear = 2024 /\ currentMonth = 2
    /\ Len(timesheetData) = 29
    /\ \E k \in 1..Len(origin) : origin[k].via = "fallback"

(***************************************************************************)
(* C2.  When the day loop has ended, the k-th record carries the ISO date  *)
(* of day k of the target year and month, in every time zone.              *)
(***************************************************************************)
C2_DatesAreTheMonthsDays ==
    LoopEnded =>
        \A k \in Records :
            timesheetData[k].Date = GitDate(currentYear, currentMonth, k)

(***************************************************************************)
(* C3.  Every record has 8 hours exactly when its Date has raw messages    *)
(* and is not a Saturday or Sunday, and 0 hours otherwise; its Weekend     *)
(* flag is Yes exactly when its Date is a Saturday or Sunday.              *)
(***************************************************************************)
C3_HoursAndWeekendFollowDate ==
    \A k \in Records :
        /\ timesheetData[k].WorkedHours =
              (IF RawOf(k) # << >> /\ ~DateIsWeekend(timesheetData[k].Date)
               THEN 8 ELSE 0)
        /\ (timesheetData[k].Weekend = "Yes") <=> DateIsWeekend(timesheetData[k].Date)

(***************************************************************************)
(* C4.  A record whose Date has no raw messages in the DailyLogGroup has   *)
(* the summary "No logs" and 0 hours, and the formatter was not called for *)
(* its day; a record whose Date has raw messages did not get its summary   *)
(* from the empty-day branch: the formatter was called for its day.        *)
(***************************************************************************)
C4_EmptyDayIsNoLogs ==
    \A k \in Records :
        IF RawOf(k) = << >>
        THEN /\ timesheetData[k].Logs = NoLogs
             /\ timesheetData[k].WorkedHours = 0
             /\ origin[k].via = "empty"
             /\ \A n \in 1..Len(trace) :
                    trace[n].op = "format" => trace[n].day # origin[k].day
        ELSE /\ origin[k].via # "empty"
             /\ \E n \in 1..Len(trace) :
                    trace[n].op = "format" /\ trace[n].day = origin[k].day

C4_Witness ==
    /\ LoopEnded
    /\ \E k \in Records : RawOf(k) = << >> /\ timesheetData[k].Logs = NoLogs
    /\ \E k \in Records : RawOf(k) # << >> /\ timesheetData[k].Logs # NoLogs

(***************************************************************************)
(* C5.  A day on which the formatter fails gets its raw messages joined by *)
(* newline, in their grouped order, as its summary; the run goes on: it    *)
(* never exits non-zero after a formatter failure, and when it has ended   *)
(* the timesheet has one record per day of the month and the writer was    *)
(* called with all of its rows.                                            *)
(***************************************************************************)
C5_FormatterFailureFallsBack ==
    /\ \A k \in Records :
          origin[k].via = "fallback" =>
              timesheetData[k].Logs = Join(RawOf(k), << "\n" >>)
    /\ (\E n \in 1..Len(trace) : trace[n].op = "formatted" /\ ~trace[n].ok) =>
          /\ exitCode \in { NoExit, 0 }
          /\ pc = "done" =>
                /\ Len(timesheetData) = CalendarDays(currentYear, currentMonth)
                /\ Len(EventsOf({ "write" })) = 1
                /\ Len(sheetValues) = Len(timesheetData) + 1
                /\ \A k \in Records : sheetValues[k + 1][3] = timesheetData[k].Logs

C5_Witness ==
    /\ pc = "done" /\ exitCode = 0
    /\ Len(timesheetData) > 28
    /\ Len(EventsOf({ "formatted" })) >= 1
    /\ \A n \in 1..Len(trace) : trace[n].op = "formatted" => ~trace[n].ok
    /\ \E k \in Records : timesheetData[k].Logs = << "a", "\n", "b" >>
    /\ Len(sheetValues) = Len(timesheetData) + 1

(***************************************************************************)
(* C6.  The line the extractor has just processed, when not blank, is cut  *)
(* at the first " - " only: its date key is the text before it, and the    *)
(* message stored last under that key is everything after it.              *)
(***************************************************************************)
\* the position of the first separator of a line
FirstSep(line) ==
    CHOOSE k \in 1..Len(line) :
        MatchAt(line, SEP, k) /\ \A j \in 1..(k - 1) : ~MatchAt(line, SEP, j)

KeyOf(line) == SubSeq(line, 1, FirstSep(line) - 1)
RestOf(line) == SubSeq(line, FirstSep(line) + Len(SEP), Len(line))

Last(q) == q[Len(q)]

\* the line processed last, when there is one and it is not blank
JustProcessed == logIdx > 1 /\ logs[logIdx - 1] # << >>

\* as claimed: the message is stored verbatim
C6_MessageVerbatim ==
    JustProcessed =>
        LET line == logs[logIdx - 1]
        IN  /\ KeyOf(line) \in DOMAIN dailyLog
            /\ Last(dailyLog[KeyOf(line)]) = RestOf(line)

\* as amended: the message is stored with the white space around it removed
C6_MessageTrimmed ==
    JustProcessed =>
        LET line == logs[logIdx - 1]
        IN  /\ KeyOf(line) \in DOMAIN dailyLog
            /\ Last(dailyLog[KeyOf(line)]) = Trim(RestOf(line))

C6_Witness ==
    /\ logIdx = 2
    /\ logs[1] = GitLine(GitDate(2024, 6, 5), << "a", " ", "-", " ", "a" >>)
    /\ dailyLog[GitDate(2024, 6, 5)] = << << "a", " ", "-", " ", "a" >> >>

(***************************************************************************)
(* C7.  After any number of lines, the sequence stored under a date is the *)
(* messages of the non-blank lines processed so far that carry the date,   *)
(* in input order; the dates stored are the dates of those lines, and the  *)
(* stored messages are as many as the non-blank lines.                     *)
(***************************************************************************)
Processed == SubSeq(logs, 1, logIdx - 1)

NonBlank(lines) == SelectSeq(lines, LAMBDA l : l # << >>)

LinesOf(lines, date) == SelectSeq(lines, LAMBDA l : l # << >> /\ LogDate(l) = date)

MessagesOf(lines, date) ==
    [ n \in 1..Len(LinesOf(lines, date)) |-> LogMessage(LinesOf(lines, date)[n]) ]

RECURSIVE SumLen(_, _)
SumLen(d, keys) ==
    IF keys = { } THEN 0
    ELSE LET key == CHOOSE x \in keys : TRUE
         IN  Len(d[key]) + SumLen(d, keys \ { key })

C7_GroupingPreservesOrder ==
    /\ DOMAIN dailyLog = { LogDate(Processed[n]) :
                             n \in { j \in 1..Len(Processed) : Processed[j] # << >> } }
    /\ \A date \in DOMAIN dailyLog : dailyLog[date] = MessagesOf(Processed, date)
    /\ SumLen(dailyLog, DOMAIN dailyLog) = Len(NonBlank(Processed))

C7_Witness ==
    /\ pc = "loop"
    /\ logs = << GitLine(GitDate(2024, 6, 5), << "b" >>),
                 << >>,
                 GitLine(GitDate(2024, 6, 6), << "a" >>),
                 GitLine(GitDate(2024, 6, 5), << "a" >>) >>
    /\ dailyLog[GitDate(2024, 6, 5)] = << << "b" >>, << "a" >> >>
    /\ dailyLog[GitDate(2024, 6, 6)] = << << "a" >> >>

(***************************************************************************)
(* C8.  With the API key, the sheet id or the credentials file missing,    *)
(* no collaborator is ever called and no work is done, and the run ends    *)
(* with exit code 1.                                                       *)
(***************************************************************************)
C8_UsageErrorBeforeAnyCall ==
    (apiKey = "" \/ sheetId = "" \/ ~credentialsExist) =>
        /\ trace = << >>
        /\ dailyLog = << >> /\ timesheetData = << >> /\ sheetValues = << >>
        /\ pc \in { "start", "done" }
        /\ pc = "done" => exitCode = 1

C8_Witness ==
    /\ pc = "done" /\ exitCode = 1
    /\ apiKey # "" /\ sheetId # "" /\ ~credentialsExist
    /\ trace = << >>

(***************************************************************************)
(* C9.  A run that has ended exits non-zero exactly when a required input  *)
(* was missing or the log fetch failed; a failed fetch is the only call of *)
(* its run; a run in which the formatter or the writer failed exits 0.     *)
(***************************************************************************)
FetchFailed == \E n \in 1..Len(trace) : trace[n].op = "fetch" /\ ~trace[n].ok

RECURSIVE ExpectedFormatOps(_)
ExpectedFormatOps(k) ==
    IF k = 0 THEN << >>
    ELSE ExpectedFormatOps(k - 1)
         \o (IF RawOf(k) # << >>
             THEN << << "format", origin[k].day >>, << "formatted", origin[k].day >> >>
             ELSE << >>)

FormatOps ==
    LET ev == EventsOf({ "format", "formatted" })
    IN  [ n \in 1..Len(ev) |-> << ev[n].op, ev[n].day >> ]

C10_FormatterCallsSequential ==
    /\ LET ev == EventsOf({ "format", "formatted" })
       IN  \A n \in 1..Len(ev) :
              ev[n].op = (IF n % 2 = 1 THEN "format" ELSE "formatted")
    /\ \A k \in 1..Len(origin) : origin[k].day = k
    /\ LoopEnded =>
          /\ FormatOps = ExpectedFormatOps(Len(timesheetData))
          /\ Len(EventsOf({ "write" })) = 1
          /\ \A n \in 1..Len(trace) :
                trace[n].op = "write" =>
                    \A j \in (n + 1)..Len(trace) : trace[j].op = "written"
          /\ Len(origin) = Len(timesheetData)
          /\ Len(sheetValues) = Len(timesheetData) + 1
    /\ ~LoopEnded => EventsOf({ "write", "written" }) = << >>

C10_Witness ==
    /\ pc = "done" /\ exitCode = 0
    /\ Len(EventsOf({ "format" })) = 2
    /\ \E k \in Records :
          /\ timesheetData[k].Weekend = "Yes"
          /\ RawOf(k) # << >>
          /\ \E n \in 1..Len(trace) : trace[n].op = "format" /\ trace[n].day = k
====
